---- MODULE Spec2Model ----
(***************************************************************************)
(* The declaration pass of spin-wasm-multi-compute (Backend.__init__ and   *)
(* the constructs it builds) followed by a provisioning engine that        *)
(* creates the declared nodes in any order that respects the declared      *)
(* dependency edges, and by the EC2 instance running its user data.        *)
(***************************************************************************)
EXTENDS Naturals, Sequences, FiniteSets, TLC

VARIABLES
    prog,                   \* the constructor being run, as its sequence of steps
    pc,                     \* index of the next step of prog
    status,                 \* "running", "done" (synthesized) or "failed" (an exception left __init__)
    error,                  \* the kind of exception that ended the pass
    vpc,                    \* Backend.__init__'s local vpc
    nodes,                  \* constructs declared so far
    deps,                   \* <<dependent, dependency>> edges declared so far
    datastore,              \* Datastore's attributes
    server,                 \* Server's EC2 instance and what was configured on it
    container,              \* Container's Fargate service and its task definition
    function,               \* Function's Lambda function and its configuration
    compute,                \* the three handles Compute exposes
    efs_allowed,            \* efs_file_system.connections: peers allowed on the default port
    alb_allowed,            \* _elb_alb.connections: <<peer, port>> the balancer may reach
    tgs,                    \* the weighted target groups LoadBalancer.__init__ holds in locals
    rule,                   \* target_groups of the listener's weighted_forward action
    endpoint,               \* LoadBalancer.endpoint
    load_balancer_endpoint, \* Backend.load_balancer_endpoint (the CfnOutput's value)
    weights,                \* the per-variant weights a caller of the splitter wants
    created,                \* nodes the provisioning engine has created
    workerOrder,            \* the workers, in the order the engine created them
    boot                    \* user-data commands the EC2 instance has run

vars == <<prog, pc, status, error, vpc, nodes, deps, datastore, server, container,
          function, compute, efs_allowed, alb_allowed, tgs, rule, endpoint,
          load_balancer_endpoint, weights, created, workerOrder, boot>>

passVars == <<vpc, nodes, deps, datastore, server, container, function, compute,
              efs_allowed, alb_allowed, tgs, rule, endpoint, load_balancer_endpoint>>

engineVars == <<created, workerOrder, boot>>

----------------------------------------------------------------------------
(* Values *)

NULL == "NULL"

\* constants.SPIN_PORT: one symbol, used by the user data, the container's port
\* mapping and the target groups (constants.py is not among the sources).
SPIN_PORT == "constants.SPIN_PORT"

\* weight=1 at each of the three call sites in LoadBalancer.__init__
DefaultWeight == 1

\* largest weight a caller is taken to want
MaxWeight == 2

Variants == {"instance", "service", "function"}

efs_mount_path == "/mnt/app"

efs_mount_path_env_var_name == "EFS_MOUNT_PATH"

Range(s) == {s[i] : i \in 1..Len(s)}

\* efs_access_point.access_point_id / efs_file_system.file_system_id: the token
\* that stands for the construct's id
access_point_id(ap) == ap

file_system_id(fs) == fs

----------------------------------------------------------------------------
(* Server: the user data, one operator per method *)

Cmd(by, text, args) == [by |-> by, text |-> text, args |-> args]

Server_apt_get_update_and_upgrade ==
    << Cmd("_apt_get_update_and_upgrade", "apt-get -y update", <<>>),
       Cmd("_apt_get_update_and_upgrade", "apt-get -y upgrade", <<>>) >>

Server_install_efs_utils ==
    << Cmd("_install_efs_utils", "apt-get -y install git binutils", <<>>),
       Cmd("_install_efs_utils", "git clone https://github.com/aws/efs-utils", <<>>),
       Cmd("_install_efs_utils", "cd efs-utils", <<>>),
       Cmd("_install_efs_utils", "./build-deb.sh", <<>>),
       Cmd("_install_efs_utils", "apt-get -y install ./build/amazon-efs-utils*deb", <<>>),
       Cmd("_install_efs_utils", "cd -", <<>>) >>

Server_mount_efs(efs_access_point_id, efs_file_system_id, mount_path) ==
    << Cmd("_mount_efs", "mkdir -p {efs_mount_path}", <<mount_path>>),
       Cmd("_mount_efs",
           "mount -t efs -o tls,accesspoint={efs_access_point_id} {efs_file_system_id}:/ {efs_mount_path}",
           <<efs_access_point_id, efs_file_system_id, mount_path>>) >>

Server_install_rust_and_wasm ==
    << Cmd("_install_rust_and_wasm",
           "echo Installing Rust / WASM dev toolchain and its requirements...", <<>>),
       Cmd("_install_rust_and_wasm", "apt-get -y install build-essential", <<>>),
       Cmd("_install_rust_and_wasm", "curl https://sh.rustup.rs -sSf | bash -s -- -y", <<>>),
       Cmd("_install_rust_and_wasm", "/root/.cargo/bin/rustup target add wasm32-wasi", <<>>) >>

Server_install_spin ==
    << Cmd("_install_spin",
           "curl -L -O https://github.com/fermyon/spin/releases/download/v0.6.0/spin-v0.6.0-linux-amd64.tar.gz",
           <<>>),
       Cmd("_install_spin", "tar -zxvf spin-v0.6.0-linux-amd64.tar.gz", <<>>),
       Cmd("_install_spin", "mv spin /usr/local/bin/spin", <<>>) >>

Server_seed_data_to_efs(mount_path) ==
    << Cmd("_seed_data_to_efs", "cd {efs_mount_path}", <<mount_path>>),
       Cmd("_seed_data_to_efs", "echo Creating and building a small application...", <<>>),
       Cmd("_seed_data_to_efs", "spin templates install --git https://github.com/fermyon/spin", <<>>),
       Cmd("_seed_data_to_efs",
           "[[ -d spin-hello-world ]] || spin new http-rust spin-hello-world --value project-description='Rust http service' --value http-base=/ --value http-path=/",
           <<>>),
       Cmd("_seed_data_to_efs",
           "/root/.cargo/bin/cargo build --manifest-path ./spin-hello-world/Cargo.toml --target wasm32-wasi --release",
           <<>>),
       Cmd("_seed_data_to_efs", "cd -", <<>>) >>

Server_start_spin(mount_path) ==
    << Cmd("_start_spin", "echo Launching Spin...", <<>>),
       Cmd("_start_spin",
           "spin up --listen 0.0.0.0:{constants.SPIN_PORT} --disable-cache --file {efs_mount_path}/spin-hello-world/spin.toml",
           <<SPIN_PORT, mount_path>>) >>

\* A slip in the call order: the application is seeded before the file system
\* is mounted, and the engine is launched before the seed.
Server_add_user_data_misordered(efs_access_point_id, efs_file_system_id, mount_path) ==
    Server_apt_get_update_and_upgrade
        \o Server_install_efs_utils
        \o Server_install_rust_and_wasm
        \o Server_install_spin
        \o Server_start_spin(mount_path)
        \o Server_seed_data_to_efs(mount_path)
        \o Server_mount_efs(efs_access_point_id, efs_file_system_id, mount_path)

\* Each add_commands call appends to the instance's user data.
Server_add_user_data(efs_access_point_id, efs_file_system_id, mount_path) ==
    Server_apt_get_update_and_upgrade
        \o Server_install_efs_utils
        \o Server_mount_efs(efs_access_point_id, efs_file_system_id, mount_path)
        \o Server_install_rust_and_wasm
        \o Server_install_spin
        \o Server_seed_data_to_efs(mount_path)
        \o Server_start_spin(mount_path)

Server_add_permissions ==
    {"AmazonSSMManagedInstanceCore", "AmazonElasticFileSystemClientReadWriteAccess"}

\* Server.__init__: the instance, its policies, its user data.
Server(efs_access_point_id, efs_file_system_id, mount_path) ==
    [ ec2_instance |-> "EC2Instance",
      subnet_type  |-> "PUBLIC",
      policies     |-> Server_add_permissions,
      user_data    |-> Server_add_user_data(efs_access_point_id, efs_file_system_id, mount_path) ]

NoServer ==
    [ ec2_instance |-> NULL, subnet_type |-> NULL, policies |-> {}, user_data |-> <<>> ]

----------------------------------------------------------------------------
(* Container and Function *)

\* Container.__init__: task definition (policy, volume "efs", container "Spin"
\* with its environment, port mapping and mount point), cluster, service.
Container(efs_access_point_id, efs_file_system_id, mount_path, env_var_name) ==
    [ ecs_fargate_service |-> "ECSFargateService",
      policies            |-> {"AmazonElasticFileSystemClientReadWriteAccess"},
      volume              |-> [ name            |-> "efs",
                                access_point_id |-> efs_access_point_id,
                                file_system_id  |-> efs_file_system_id ],
      environment         |-> {<<env_var_name, mount_path>>},
      container_port      |-> SPIN_PORT,
      mount_point         |-> [ container_path |-> mount_path,
                                source_volume  |-> "efs" ] ]

NoContainer ==
    [ ecs_fargate_service |-> NULL,
      policies            |-> {},
      volume              |-> [ name |-> NULL, access_point_id |-> NULL, file_system_id |-> NULL ],
      environment         |-> {},
      container_port      |-> NULL,
      mount_point         |-> [ container_path |-> NULL, source_volume |-> NULL ] ]

\* A slip: the function is mounted somewhere else than the other two workers.
Function_other_mount_path(efs_access_point, mount_path, env_var_name) ==
    [ lambda_function |-> "LambdaFunction",
      environment     |-> {<<env_var_name, mount_path>>},
      filesystem      |-> [ access_point |-> efs_access_point, mount_path |-> "/mnt/efs" ] ]

\* Function.__init__: the image function, its environment, its file system.
Function(efs_access_point, mount_path, env_var_name) ==
    [ lambda_function |-> "LambdaFunction",
      environment     |-> {<<env_var_name, mount_path>>},
      filesystem      |-> [ access_point |-> efs_access_point, mount_path |-> mount_path ] ]

NoFunction ==
    [ lambda_function |-> NULL,
      environment     |-> {},
      filesystem      |-> [ access_point |-> NULL, mount_path |-> NULL ] ]

----------------------------------------------------------------------------
(* LoadBalancer: the three target-group helpers *)

NoTargetGroup ==
    [ id |-> NULL, shape |-> NULL, target |-> NULL, port |-> NULL, weight |-> 0 ]

\* A slip: the helper drops its weight argument and drains the group.
LoadBalancer_create_ec2_target_group_drained(ec2_instance, weight) ==
    [ id     |-> "ELBApplicationTargetGroupEC2Instance",
      shape  |-> "instance",
      target |-> ec2_instance,
      port   |-> SPIN_PORT,
      weight |-> 0 ]

\* _create_ec2_target_group: an InstanceTarget on SPIN_PORT, with the weight given.
LoadBalancer_create_ec2_target_group(ec2_instance, weight) ==
    [ id     |-> "ELBApplicationTargetGroupEC2Instance",
      shape  |-> "instance",
      target |-> ec2_instance,
      port   |-> SPIN_PORT,
      weight |-> weight ]

\* _create_ecs_target_group: the service itself as target, on SPIN_PORT.
LoadBalancer_create_ecs_target_group(ecs_fargate_service, weight) ==
    [ id     |-> "ELBApplicationTargetGroupECSFargateService",
      shape  |-> "service",
      target |-> ecs_fargate_service,
      port   |-> SPIN_PORT,
      weight |-> weight ]

\* _create_lambda_target_group: a LambdaTarget, no port.
LoadBalancer_create_lambda_target_group(lambda_function, weight) ==
    [ id     |-> "ELBApplicationTargetGroupLambdaFunction",
      shape  |-> "function",
      target |-> lambda_function,
      port   |-> NULL,
      weight |-> weight ]

\* A slip: the service's group is listed twice and the function's is left out.
weighted_forward_duplicated(ec2_target_group, ecs_target_group, lambda_target_group) ==
    <<ec2_target_group, ecs_target_group, ecs_target_group>>

\* ListenerAction.weighted_forward(target_groups=[ec2, ecs, lambda])
weighted_forward(ec2_target_group, ecs_target_group, lambda_target_group) ==
    <<ec2_target_group, ecs_target_group, lambda_target_group>>

----------------------------------------------------------------------------
(* The constructors as sequences of steps *)

Datastore_init == <<"Datastore">>

Compute_init == <<"Server", "Container", "Function">>

LoadBalancer_init ==
    << "ELBALB", "_create_ec2_target_group", "_create_ecs_target_group",
       "_create_lambda_target_group", "Listener", "Action", "endpoint" >>

\* A slip in the statement order: the splitter is built before the grants.
Backend_init_splitter_before_grants ==
    <<"vpc">> \o Datastore_init \o Compute_init
        \o LoadBalancer_init \o <<"allow_connections_from">> \o <<"LoadBalancerEndpoint">>

\* Backend.__init__, statement by statement
Backend_init ==
    <<"vpc">> \o Datastore_init \o Compute_init
        \o <<"allow_connections_from">> \o LoadBalancer_init \o <<"LoadBalancerEndpoint">>

Running == status = "running" /\ pc <= Len(prog)

AtStep(step) == Running /\ prog[pc] = step

\* A slip: the function's target is taken without being looked at, so a
\* missing function is not noticed when its target group is built.
Consumes_lazy_lambda(step) ==
    CASE step = "_create_ec2_target_group"    -> {compute.ec2_instance}
      [] step = "_create_ecs_target_group"    -> {compute.ecs_fargate_service}
      [] OTHER                                -> {}

\* The worker references a step of LoadBalancer.__init__ hands to the library,
\* which resolves them on the spot: allow_to and InstanceTarget for the
\* instance, targets=[service] for the service, LambdaTarget for the function.
Consumes(step) ==
    CASE step = "_create_ec2_target_group"    -> {compute.ec2_instance}
      [] step = "_create_ecs_target_group"    -> {compute.ecs_fargate_service}
      [] step = "_create_lambda_target_group" -> {compute.lambda_function}
      [] OTHER                                -> {}

Resolved(step) == NULL \notin Consumes(step)

\* A slip: the exception is caught and the pass goes on with the next statement.
Raise_swallowed(err) ==
    /\ pc' = pc + 1
    /\ UNCHANGED <<status, error, prog, passVars>>

\* No constructor catches anything: an exception leaves Backend.__init__, the
\* pass ends, and what was declared so far is never synthesized.
Raise(err) ==
    /\ status' = "failed"
    /\ error' = err
    /\ UNCHANGED <<prog, pc, passVars>>

Advance ==
    /\ pc' = pc + 1
    /\ status' = IF pc = Len(prog) THEN "done" ELSE "running"
    /\ UNCHANGED <<prog, error>>

----------------------------------------------------------------------------
(* Datastore, Compute and the grants *)

Datastore ==
    [ efs_file_system    |-> "EFSFileSystem",
      removal_policy     |-> "DESTROY",
      efs_access_point   |-> "AccessPoint",
      access_point_scope |-> "EFSFileSystem" ]

NoDatastore ==
    [ efs_file_system    |-> NULL,
      removal_policy     |-> NULL,
      efs_access_point   |-> NULL,
      access_point_scope |-> NULL ]

NoCompute ==
    [ ec2_instance |-> NULL, ecs_fargate_service |-> NULL, lambda_function |-> NULL ]

\* A slip: the service is not tied to the instance.
Compute_service_dependency_missing(self) == {}

\* A different design: the service also waits for a node that stands for the
\* instance's bootstrap having finished.
Compute_service_dependency_on_bootstrap(self) ==
    {<<self.ecs_fargate_service, self.ec2_instance>>,
     <<self.ecs_fargate_service, "BootstrapComplete">>}

\* self.ecs_fargate_service.node.add_dependency(self.ec2_instance)
Compute_service_dependency(self) ==
    {<<self.ecs_fargate_service, self.ec2_instance>>}

\* A slip: the function is tied to the service instead of the instance.
Compute_function_dependency_on_service(self) ==
    {<<self.lambda_function, self.ecs_fargate_service>>}

\* self.lambda_function.node.add_dependency(self.ec2_instance)
Compute_function_dependency(self) ==
    {<<self.lambda_function, self.ec2_instance>>}

\* A slip: the loop stops one short and the last peer is not granted.
allow_connections_from_all_but_last(connections, others) ==
    connections \cup {others[i] : i \in 1..(Len(others) - 1)}

\* Datastore.allow_connections_from: allow_default_port_from for each of others
allow_connections_from(connections, others) ==
    connections \cup {others[i] : i \in 1..Len(others)}

VpcLookup ==
    /\ AtStep("vpc")
    /\ vpc' = "VPC"
    /\ Advance
    /\ UNCHANGED <<nodes, deps, datastore, server, container, function, compute,
                   efs_allowed, alb_allowed, tgs, rule, endpoint,
                   load_balancer_endpoint, weights, engineVars>>

Datastore_create ==
    /\ AtStep("Datastore")
    /\ vpc # NULL
    /\ datastore' = Datastore
    /\ nodes' = nodes \cup {"EFSFileSystem", "AccessPoint"}
    /\ deps' = deps \cup {<<"AccessPoint", "EFSFileSystem">>}
    /\ Advance
    /\ UNCHANGED <<vpc, server, container, function, compute, efs_allowed,
                   alb_allowed, tgs, rule, endpoint, load_balancer_endpoint,
                   weights, engineVars>>

\* Compute.__init__, lines 43-51
Compute_Server ==
    /\ AtStep("Server")
    /\ vpc # NULL
    /\ datastore.efs_access_point # NULL
    /\ datastore.efs_file_system # NULL
    /\ server' = Server(access_point_id(datastore.efs_access_point),
                        file_system_id(datastore.efs_file_system),
                        efs_mount_path)
    /\ compute' = [compute EXCEPT !.ec2_instance = server'.ec2_instance]
    /\ nodes' = nodes \cup {"EC2Instance"}
    /\ deps' = deps \cup {<<"EC2Instance", datastore.efs_access_point>>,
                          <<"EC2Instance", datastore.efs_file_system>>}
    /\ Advance
    /\ UNCHANGED <<vpc, datastore, container, function, efs_allowed, alb_allowed,
                   tgs, rule, endpoint, load_balancer_endpoint, weights, engineVars>>

\* Compute.__init__, lines 53-63
Compute_Container ==
    /\ AtStep("Container")
    /\ vpc # NULL
    /\ datastore.efs_access_point # NULL
    /\ datastore.efs_file_system # NULL
    /\ compute.ec2_instance # NULL
    /\ container' = Container(access_point_id(datastore.efs_access_point),
                              file_system_id(datastore.efs_file_system),
                              efs_mount_path, efs_mount_path_env_var_name)
    /\ compute' = [compute EXCEPT !.ecs_fargate_service = container'.ecs_fargate_service]
    /\ nodes' = nodes \cup {"ECSFargateTaskDefinition", "ECSCluster", "ECSFargateService"}
    /\ deps' = deps \cup {<<"ECSFargateTaskDefinition", datastore.efs_access_point>>,
                          <<"ECSFargateTaskDefinition", datastore.efs_file_system>>,
                          <<"ECSFargateService", "ECSCluster">>,
                          <<"ECSFargateService", "ECSFargateTaskDefinition">>}
                    \cup Compute_service_dependency(compute')
    /\ Advance
    /\ UNCHANGED <<vpc, datastore, server, function, efs_allowed, alb_allowed,
                   tgs, rule, endpoint, load_balancer_endpoint, weights, engineVars>>

\* Compute.__init__, lines 65-74
Compute_Function ==
    /\ AtStep("Function")
    /\ vpc # NULL
    /\ datastore.efs_access_point # NULL
    /\ compute.ec2_instance # NULL
    /\ function' = Function(datastore.efs_access_point, efs_mount_path,
                            efs_mount_path_env_var_name)
    /\ compute' = [compute EXCEPT !.lambda_function = function'.lambda_function]
    /\ nodes' = nodes \cup {"LambdaFunction"}
    /\ deps' = deps \cup {<<"LambdaFunction", datastore.efs_access_point>>}
                    \cup Compute_function_dependency(compute')
    /\ Advance
    /\ UNCHANGED <<vpc, datastore, server, container, efs_allowed, alb_allowed,
                   tgs, rule, endpoint, load_balancer_endpoint, weights, engineVars>>

\* Backend.__init__, lines 49-51
Backend_allow_connections_from ==
    /\ AtStep("allow_connections_from")
    /\ datastore.efs_file_system # NULL
    /\ compute.ec2_instance # NULL
    /\ compute.ecs_fargate_service # NULL
    /\ compute.lambda_function # NULL
    /\ efs_allowed' = allow_connections_from(efs_allowed,
                          << compute.ec2_instance, compute.ecs_fargate_service,
                             compute.lambda_function >>)
    /\ Advance
    /\ UNCHANGED <<vpc, nodes, deps, datastore, server, container, function, compute,
                   alb_allowed, tgs, rule, endpoint, load_balancer_endpoint,
                   weights, engineVars>>

----------------------------------------------------------------------------
(* LoadBalancer.__init__ *)

NoTargetGroups ==
    [ ec2_target_group    |-> NoTargetGroup,
      ecs_target_group    |-> NoTargetGroup,
      lambda_target_group |-> NoTargetGroup ]

LB_ELBALB ==
    /\ AtStep("ELBALB")
    /\ vpc # NULL
    /\ nodes' = nodes \cup {"ELBALB"}
    /\ Advance
    /\ UNCHANGED <<vpc, deps, datastore, server, container, function, compute,
                   efs_allowed, alb_allowed, tgs, rule, endpoint,
                   load_balancer_endpoint, weights, engineVars>>

LB_ec2_target_group ==
    /\ AtStep("_create_ec2_target_group")
    /\ Resolved("_create_ec2_target_group")
    /\ "ELBALB" \in nodes
    /\ alb_allowed' = alb_allowed \cup {<<compute.ec2_instance, SPIN_PORT>>}
    /\ tgs' = [tgs EXCEPT !.ec2_target_group =
                  LoadBalancer_create_ec2_target_group(compute.ec2_instance, DefaultWeight)]
    /\ nodes' = nodes \cup {tgs'.ec2_target_group.id}
    /\ deps' = deps \cup {<<tgs'.ec2_target_group.id, compute.ec2_instance>>}
    /\ Advance
    /\ UNCHANGED <<vpc, datastore, server, container, function, compute, efs_allowed,
                   rule, endpoint, load_balancer_endpoint, weights, engineVars>>

LB_ecs_target_group ==
    /\ AtStep("_create_ecs_target_group")
    /\ Resolved("_create_ecs_target_group")
    /\ tgs' = [tgs EXCEPT !.ecs_target_group =
                  LoadBalancer_create_ecs_target_group(compute.ecs_fargate_service, DefaultWeight)]
    /\ nodes' = nodes \cup {tgs'.ecs_target_group.id}
    /\ deps' = deps \cup {<<tgs'.ecs_target_group.id, compute.ecs_fargate_service>>}
    /\ Advance
    /\ UNCHANGED <<vpc, datastore, server, container, function, compute, efs_allowed,
                   alb_allowed, rule, endpoint, load_balancer_endpoint, weights,
                   engineVars>>

LB_lambda_target_group ==
    /\ AtStep("_create_lambda_target_group")
    /\ Resolved("_create_lambda_target_group")
    /\ tgs' = [tgs EXCEPT !.lambda_target_group =
                  LoadBalancer_create_lambda_target_group(compute.lambda_function, DefaultWeight)]
    /\ nodes' = nodes \cup {tgs'.lambda_target_group.id}
    /\ deps' = deps \cup {<<tgs'.lambda_target_group.id, compute.lambda_function>>}
    /\ Advance
    /\ UNCHANGED <<vpc, datastore, server, container, function, compute, efs_allowed,
                   alb_allowed, rule, endpoint, load_balancer_endpoint, weights,
                   engineVars>>

LB_Listener ==
    /\ AtStep("Listener")
    /\ "ELBALB" \in nodes
    /\ nodes' = nodes \cup {"Listener"}
    /\ deps' = deps \cup {<<"Listener", "ELBALB">>}
    /\ Advance
    /\ UNCHANGED <<vpc, datastore, server, container, function, compute, efs_allowed,
                   alb_allowed, tgs, rule, endpoint, load_balancer_endpoint, weights,
                   engineVars>>

LB_Action ==
    /\ AtStep("Action")
    /\ "Listener" \in nodes
    /\ rule' = weighted_forward(tgs.ec2_target_group, tgs.ecs_target_group,
                                tgs.lambda_target_group)
    /\ nodes' = nodes \cup {"Action"}
    /\ deps' = deps \cup {<<"Action", "Listener">>}
                    \cup {<<"Action", rule'[i].id>> : i \in 1..Len(rule')}
    /\ Advance
    /\ UNCHANGED <<vpc, datastore, server, container, function, compute, efs_allowed,
                   alb_allowed, tgs, endpoint, load_balancer_endpoint, weights,
                   engineVars>>

LB_endpoint ==
    /\ AtStep("endpoint")
    /\ "ELBALB" \in nodes
    /\ endpoint' = "ELBALB.load_balancer_dns_name"
    /\ Advance
    /\ UNCHANGED <<vpc, nodes, deps, datastore, server, container, function, compute,
                   efs_allowed, alb_allowed, tgs, rule, load_balancer_endpoint,
                   weights, engineVars>>

\* Backend.__init__, lines 60-64
Backend_CfnOutput ==
    /\ AtStep("LoadBalancerEndpoint")
    /\ endpoint # NULL
    /\ load_balancer_endpoint' = endpoint
    /\ Advance
    /\ UNCHANGED <<vpc, nodes, deps, datastore, server, container, function, compute,
                   efs_allowed, alb_allowed, tgs, rule, endpoint, weights, engineVars>>

----------------------------------------------------------------------------
(* Exceptions *)

\* The steps that declare constructs or look one up: the library or the
\* provider may reject any of them.
MayFail(step) == step \notin {"allow_connections_from", "endpoint"}

CreationFailure ==
    /\ Running
    /\ MayFail(prog[pc])
    /\ Raise("creation-failure")
    /\ UNCHANGED <<weights, engineVars>>

\* A worker reference handed to the library does not resolve.
UnresolvedReference ==
    /\ Running
    /\ ~Resolved(prog[pc])
    /\ Raise("unresolved-reference")
    /\ UNCHANGED <<weights, engineVars>>

----------------------------------------------------------------------------
(* The provisioning engine and the instance's first boot *)

Workers == {"EC2Instance", "ECSFargateService", "LambdaFunction"}

DependenciesOf(n) == {e[2] : e \in {d \in deps : d[1] = n}}

\* The engine creates a declared node once every node it depends on exists.
Provision(n) ==
    /\ status = "done"
    /\ n \in nodes \ created
    /\ DependenciesOf(n) \subseteq created
    /\ created' = created \cup {n}
    /\ workerOrder' = IF n \in Workers THEN Append(workerOrder, n) ELSE workerOrder
    /\ UNCHANGED <<prog, pc, status, error, passVars, weights, boot>>

\* The created instance runs its user data, one command after the other.
RunUserData ==
    /\ server.ec2_instance # NULL
    /\ server.ec2_instance \in created
    /\ boot < Len(server.user_data)
    /\ boot' = boot + 1
    /\ UNCHANGED <<prog, pc, status, error, passVars, weights, created, workerOrder>>

----------------------------------------------------------------------------
(* Specifications *)

Init ==
    /\ prog = Backend_init
    /\ pc = 1
    /\ status = "running"
    /\ error = NULL
    /\ vpc = NULL
    /\ nodes = {}
    /\ deps = {}
    /\ datastore = NoDatastore
    /\ server = NoServer
    /\ container = NoContainer
    /\ function = NoFunction
    /\ compute = NoCompute
    /\ efs_allowed = {}
    /\ alb_allowed = {}
    /\ tgs = NoTargetGroups
    /\ rule = <<>>
    /\ endpoint = NULL
    /\ load_balancer_endpoint = NULL
    /\ weights = [v \in Variants |-> DefaultWeight]
    /\ created = {}
    /\ workerOrder = <<>>
    /\ boot = 0

Next ==
    \/ VpcLookup
    \/ Datastore_create
    \/ Compute_Server
    \/ Compute_Container
    \/ Compute_Function
    \/ Backend_allow_connections_from
    \/ LB_ELBALB
    \/ LB_ec2_target_group
    \/ LB_ecs_target_group
    \/ LB_lambda_target_group
    \/ LB_Listener
    \/ LB_Action
    \/ LB_endpoint
    \/ Backend_CfnOutput
    \/ CreationFailure
    \/ \E n \in nodes : Provision(n)
    \/ RunUserData

Spec == Init /\ [][Next]_vars

\* LoadBalancer.__init__ called on its own: each worker reference is either
\* the worker Compute produced or missing, the caller wants some weights.
InitLB ==
    /\ prog = LoadBalancer_init
    /\ pc = 1
    /\ status = "running"
    /\ error = NULL
    /\ vpc = "VPC"
    /\ datastore = Datastore
    /\ compute \in [ ec2_instance        : {NULL, "EC2Instance"},
                     ecs_fargate_service : {NULL, "ECSFargateService"},
                     lambda_function     : {NULL, "LambdaFunction"} ]
    /\ server = IF compute.ec2_instance = NULL THEN NoServer
                ELSE Server("AccessPoint", "EFSFileSystem", efs_mount_path)
    /\ container = IF compute.ecs_fargate_service = NULL THEN NoContainer
                   ELSE Container("AccessPoint", "EFSFileSystem", efs_mount_path,
                                  efs_mount_path_env_var_name)
    /\ function = IF compute.lambda_function = NULL THEN NoFunction
                  ELSE Function("AccessPoint", efs_mount_path, efs_mount_path_env_var_name)
    /\ nodes = {"EFSFileSystem", "AccessPoint"}
                  \cup ({compute.ec2_instance, compute.ecs_fargate_service,
                         compute.lambda_function} \ {NULL})
    /\ deps = {<<"AccessPoint", "EFSFileSystem">>}
    /\ efs_allowed = {}
    /\ alb_allowed = {}
    /\ tgs = NoTargetGroups
    /\ rule = <<>>
    /\ endpoint = NULL
    /\ load_balancer_endpoint = NULL
    /\ weights \in [Variants -> 0..MaxWeight]
    /\ created = {}
    /\ workerOrder = <<>>
    /\ boot = 0

NextLB ==
    \/ LB_ELBALB
    \/ LB_ec2_target_group
    \/ LB_ecs_target_group
    \/ LB_lambda_target_group
    \/ LB_Listener
    \/ LB_Action
    \/ LB_endpoint
    \/ UnresolvedReference

SpecLB == InitLB /\ [][NextLB]_vars

----------------------------------------------------------------------------
(* Properties *)

Handles == {compute.ec2_instance, compute.ecs_fargate_service, compute.lambda_function}

TargetGroupIds ==
    { "ELBApplicationTargetGroupEC2Instance",
      "ELBApplicationTargetGroupECSFargateService",
      "ELBApplicationTargetGroupLambdaFunction" }

\* C1: in every run of the engine, a step that creates the Fargate service or
\* the Lambda function starts from a state in which the EC2 instance is already
\* created, and the declared graph holds an edge from each of the two onto it.
C1_VMWorkerFirst ==
    [][ /\ \A w \in {"ECSFargateService", "LambdaFunction"} :
              (w \in created' /\ w \notin created) => "EC2Instance" \in created
        /\ \A w \in {"ECSFargateService", "LambdaFunction"} :
              w \in nodes' => <<w, "EC2Instance">> \in deps' ]_vars

\* C1 happens: the engine has created all three workers.
C1_Witness ==
    /\ Len(workerOrder) = 3
    /\ workerOrder[1] = "EC2Instance"

StorageComplete == datastore = Datastore /\ {"EFSFileSystem", "AccessPoint"} \subseteq nodes

ComputeComplete ==
    /\ NULL \notin Handles
    /\ Workers \subseteq nodes
    /\ <<"ECSFargateService", "EC2Instance">> \in deps
    /\ <<"LambdaFunction", "EC2Instance">> \in deps

SplitterStarted ==
    \/ ({"ELBALB", "Listener", "Action"} \cup TargetGroupIds) \cap nodes # {}
    \/ tgs # NoTargetGroups
    \/ rule # <<>>
    \/ endpoint # NULL

SplitterComplete ==
    /\ ({"ELBALB", "Listener", "Action"} \cup TargetGroupIds) \subseteq nodes
    /\ Len(rule) = 3
    /\ endpoint # NULL

\* C2: Backend.__init__ goes network placement, storage, compute, grants,
\* splitter, output: whatever a step leaves behind is there only when the step
\* before it is complete; the grants are there only when the storage and the
\* three principals are.
C2_StrictOrder ==
    /\ (datastore # NoDatastore => vpc # NULL)
    /\ ((compute # NoCompute \/ Workers \cap nodes # {}) => StorageComplete)
    /\ (efs_allowed # {} => StorageComplete /\ ComputeComplete)
    /\ (SplitterStarted => efs_allowed = Handles /\ ComputeComplete)
    /\ (load_balancer_endpoint # NULL => SplitterComplete)

\* C2 happens: the whole sequence has run.
C2_Witness ==
    /\ status = "done"
    /\ efs_allowed # {}
    /\ load_balancer_endpoint # NULL

AllCreated ==
    /\ {"EFSFileSystem", "AccessPoint"} \subseteq nodes
    /\ Workers \subseteq nodes
    /\ TargetGroupIds \subseteq nodes
    /\ "Action" \in nodes
    /\ Len(rule) = 3

\* C3: the endpoint output is there exactly when the storage, the three
\* workers, the three target groups and the listener rule were all declared and
\* no exception ended the pass; a failed pass has no endpoint and hands nothing
\* to the engine.
C3_EndpointIffAllCreated ==
    /\ (load_balancer_endpoint # NULL => AllCreated /\ status = "done")
    /\ (status \in {"done", "failed"} =>
           (load_balancer_endpoint # NULL <=> (AllCreated /\ status # "failed")))
    /\ (status = "failed" => load_balancer_endpoint = NULL /\ created = {})

\* C3 happens: the pass failed with the workers and part of the splitter declared.
C3_Witness ==
    /\ status = "failed"
    /\ Workers \subseteq nodes
    /\ "ELBApplicationTargetGroupEC2Instance" \in nodes
    /\ load_balancer_endpoint = NULL

Weights021 ==
    [v \in Variants |-> CASE v = "instance" -> 0 [] v = "service" -> 2 [] v = "function" -> 1]

\* C5, as claimed: when the caller wants {VM:0, Service:2, Function:1}, the
\* declared rule carries those weights.
C5_CallerWeights ==
    (rule # <<>> /\ weights = Weights021) =>
        /\ Len(rule) = 3
        /\ \A i \in 1..Len(rule) : rule[i].weight = weights[rule[i].shape]

\* C5, amended: the constructor takes no weights; whatever the caller wants,
\* the rule keeps all three target groups and each carries the weight passed at
\* its call site, the literal 1, which each helper copies unchanged.
C5_CallSiteWeights ==
    /\ (rule # <<>> =>
           /\ Len(rule) = 3
           /\ {rule[i].shape : i \in 1..Len(rule)} = Variants
           /\ \A i \in 1..Len(rule) : rule[i].weight = DefaultWeight)
    /\ \A w \in 0..MaxWeight :
           /\ LoadBalancer_create_ec2_target_group(compute.ec2_instance, w).weight = w
           /\ LoadBalancer_create_ecs_target_group(compute.ecs_fargate_service, w).weight = w
           /\ LoadBalancer_create_lambda_target_group(compute.lambda_function, w).weight = w

\* C5 happens: the caller wants {VM:0, Service:2, Function:1} and the rule is declared.
C5_Witness ==
    /\ rule # <<>>
    /\ weights = Weights021

TargetOf(shape) ==
    CASE shape = "instance" -> compute.ec2_instance
      [] shape = "service"  -> compute.ecs_fargate_service
      [] shape = "function" -> compute.lambda_function

RECURSIVE SumWeights(_)
SumWeights(s) == IF s = <<>> THEN 0 ELSE Head(s).weight + SumWeights(Tail(s))

\* C6: the declared rule holds one weighted target group per worker variant,
\* three in all, none twice, each on its own worker; each weight can be read
\* off the rule, and as Backend builds it all three are 1.
C6_OneTargetPerVariant ==
    rule # <<>> =>
        /\ Len(rule) = 3
        /\ \A v \in Variants :
               Cardinality({i \in 1..Len(rule) : rule[i].shape = v}) = 1
        /\ Cardinality({rule[i].id : i \in 1..Len(rule)}) = 3
        /\ \A i \in 1..Len(rule) :
               /\ rule[i].target = TargetOf(rule[i].shape)
               /\ rule[i].target # NULL
               /\ rule[i].weight = weights[rule[i].shape]
               /\ rule[i].weight = 1
        /\ SumWeights(rule) = 3

\* C6 happens: Backend has declared the rule and finished.
C6_Witness ==
    /\ rule # <<>>
    /\ "Action" \in nodes
    /\ status = "done"

GrantsDone == \E i \in 1..(pc - 1) : prog[i] = "allow_connections_from"

\* C7: the peers granted the file system's default port are, once the grant
\* step has run, exactly the three workers Compute produced, and none before.
C7_GrantsExactlyWorkers ==
    /\ (GrantsDone =>
           /\ efs_allowed = Handles
           /\ efs_allowed = Workers
           /\ Cardinality(efs_allowed) = 3)
    /\ (~GrantsDone => efs_allowed = {})

\* C7 happens: the grant step has run and the engine has created the workers.
C7_Witness ==
    /\ GrantsDone
    /\ efs_allowed # {}
    /\ Workers \subseteq created

ServerMount ==
    {c \in Range(server.user_data) : c.by = "_mount_efs" /\ Len(c.args) = 3}

MountPaths ==
    {c.args[3] : c \in ServerMount}
        \cup {c.args[1] : c \in {d \in Range(server.user_data) :
                                    d.by \in {"_seed_data_to_efs"} /\ Len(d.args) = 1}}
        \cup {c.args[2] : c \in {d \in Range(server.user_data) :
                                    d.by = "_start_spin" /\ Len(d.args) = 2}}
        \cup ({container.mount_point.container_path} \ {NULL})
        \cup ({function.filesystem.mount_path} \ {NULL})

AccessPoints ==
    {c.args[1] : c \in ServerMount}
        \cup ({container.volume.access_point_id} \ {NULL})
        \cup ({access_point_id(function.filesystem.access_point)} \ {NULL})

FileSystems ==
    {c.args[2] : c \in ServerMount} \cup ({container.volume.file_system_id} \ {NULL})

\* C8: every worker declared so far is configured with the one mount path and
\* the one access point the Datastore created, which belongs to its one file
\* system; with all three declared each of them has both.
C8_SameMountAndAccessPoint ==
    /\ MountPaths \subseteq {efs_mount_path}
    /\ AccessPoints \subseteq {access_point_id(datastore.efs_access_point)}
    /\ FileSystems \subseteq {file_system_id(datastore.efs_file_system)}
    /\ (NULL \notin Handles =>
           /\ ServerMount # {}
           /\ container.mount_point.container_path = function.filesystem.mount_path
           /\ \A c \in ServerMount :
                  /\ c.args[3] = container.mount_point.container_path
                  /\ c.args[1] = container.volume.access_point_id
                  /\ c.args[1] = access_point_id(function.filesystem.access_point)
           /\ datastore.efs_access_point # NULL
           /\ datastore.access_point_scope = datastore.efs_file_system
           /\ container.environment = function.environment)

\* C8 happens: the three workers are declared.
C8_Witness ==
    /\ NULL \notin Handles
    /\ function.filesystem.mount_path # NULL

RECURSIVE Requires(_)
Requires(S) ==
    LET T == S \cup UNION {DependenciesOf(n) : n \in S}
    IN  IF T = S THEN S ELSE Requires(T)

\* C9: in the declared graph neither of the service and the function requires
\* the other, directly or through other nodes, and the only worker either
\* depends on is the instance; so with the instance and its own other
\* prerequisites created, the engine can create either of them whether or not
\* the other exists.
C9_ServiceFunctionIndependent ==
    /\ ("ECSFargateService" \in nodes =>
           /\ "LambdaFunction" \notin Requires({"ECSFargateService"})
           /\ DependenciesOf("ECSFargateService") \cap Workers = {"EC2Instance"})
    /\ ("LambdaFunction" \in nodes =>
           /\ "ECSFargateService" \notin Requires({"LambdaFunction"})
           /\ DependenciesOf("LambdaFunction") \cap Workers = {"EC2Instance"})
    /\ ((/\ status = "done"
         /\ {"EC2Instance", "ECSCluster", "ECSFargateTaskDefinition"} \subseteq created
         /\ "ECSFargateService" \notin created)
            => ENABLED Provision("ECSFargateService"))
    /\ ((/\ status = "done"
         /\ {"EC2Instance", "AccessPoint"} \subseteq created
         /\ "LambdaFunction" \notin created)
            => ENABLED Provision("LambdaFunction"))

\* C9 happens: the engine created the function before the service.
C9_Witness ==
    /\ workerOrder = <<"EC2Instance", "LambdaFunction", "ECSFargateService">>

\* The methods that added the commands, in order, each named once per run of
\* consecutive commands.
RECURSIVE Phases(_)
Phases(ud) ==
    IF ud = <<>> THEN <<>>
    ELSE IF Len(ud) > 1 /\ ud[1].by = ud[2].by THEN Phases(Tail(ud))
    ELSE <<ud[1].by>> \o Phases(Tail(ud))

IndexOf(ud, text) == {i \in 1..Len(ud) : ud[i].text = text}

\* C10: the user data is the commands of update, EFS client, mount, toolchain,
\* Spin, seed and launch, in that order; the mount command comes before the
\* build that seeds the file system, the build before the launch, and the
\* launch, on SPIN_PORT, is the last command.
C10_BootstrapOrder ==
    server.ec2_instance # NULL =>
        LET ud     == server.user_data
            mount  == IndexOf(ud, "mount -t efs -o tls,accesspoint={efs_access_point_id} {efs_file_system_id}:/ {efs_mount_path}")
            seed   == IndexOf(ud, "/root/.cargo/bin/cargo build --manifest-path ./spin-hello-world/Cargo.toml --target wasm32-wasi --release")
            launch == IndexOf(ud, "spin up --listen 0.0.0.0:{constants.SPIN_PORT} --disable-cache --file {efs_mount_path}/spin-hello-world/spin.toml")
        IN  /\ Phases(ud) = << "_apt_get_update_and_upgrade", "_install_efs_utils",
                               "_mount_efs", "_install_rust_and_wasm", "_install_spin",
                               "_seed_data_to_efs", "_start_spin" >>
            /\ Cardinality(mount) = 1 /\ Cardinality(seed) = 1 /\ Cardinality(launch) = 1
            /\ \A m \in mount : \A s \in seed : \A l \in launch :
                   /\ m < s
                   /\ s < l
                   /\ l = Len(ud)
                   /\ ud[l].args = <<SPIN_PORT, efs_mount_path>>

\* C10 happens: the created instance has run its user data to the last command.
C10_Witness ==
    /\ server.ec2_instance \in created
    /\ boot = Len(server.user_data)
    /\ boot > 0

SeedIndex ==
    IndexOf(server.user_data,
            "/root/.cargo/bin/cargo build --manifest-path ./spin-hello-world/Cargo.toml --target wasm32-wasi --release")

Downstream ==
    {"ECSFargateService", "LambdaFunction", "Action"} \cup TargetGroupIds

\* C11: what the service, the function and the splitter wait for is the
\* instance's node and other declared nodes, never the progress of its user
\* data: every declared dependency is itself a declared node, the workers'
\* dependencies are the ones listed here, and a downstream node whose
\* dependencies exist can be created with the user data at any command, the
\* first included.
C11_ProvisioningNotReadiness ==
    /\ \A n \in nodes : DependenciesOf(n) \subseteq nodes
    /\ ("ECSFargateService" \in nodes =>
           DependenciesOf("ECSFargateService")
               = {"EC2Instance", "ECSCluster", "ECSFargateTaskDefinition"})
    /\ ("LambdaFunction" \in nodes =>
           DependenciesOf("LambdaFunction") = {"EC2Instance", "AccessPoint"})
    /\ ("ELBApplicationTargetGroupEC2Instance" \in nodes =>
           DependenciesOf("ELBApplicationTargetGroupEC2Instance") = {"EC2Instance"})
    /\ (status = "done" =>
           \A n \in (Downstream \cap nodes) \ created :
               DependenciesOf(n) \subseteq created => ENABLED Provision(n))
    /\ (boot > 0 => "EC2Instance" \in created)

\* C11 happens: the service, the function and the rule with the instance's
\* target group are all created while the instance has not yet run the build
\* that seeds the file system.
C11_Witness ==
    /\ status = "done"
    /\ Downstream \subseteq created
    /\ \E i \in 1..Len(rule) : rule[i].target = "EC2Instance"
    /\ "EC2Instance" \in created
    /\ \A s \in SeedIndex : boot < s
    /\ SeedIndex # {}

====
